---- MODULE Spec2Model ----
(***************************************************************************)
(* SurvEase: the record store (MemStorage) and its aggregation functions,  *)
(* the selection of DatabaseStorage.getForms and its getActivityData, the   *)
(* handlers of /api/forms, and markFormAsCompleted run concurrently; the    *)
(* Firebase store, the token middleware and two client components.         *)
(*                                                                         *)
(* Time is counted in ticks, TicksPerDay ticks to the day.  An optional    *)
(* value (undefined / null in the source) is the empty sequence, a present *)
(* one the one-element sequence.  A mean is kept as the exact fraction     *)
(* sum / count the source divides.                                         *)
(***************************************************************************)
EXTENDS Integers, Sequences, FiniteSets, TLC

VARIABLES
    forms,                  \* MemStorage.forms: id -> Form
    currentFormId,          \* MemStorage.currentFormId
    completions,            \* MemStorage.completions: id -> Completion
    currentCompletionId,    \* MemStorage.currentCompletionId
    now,                    \* the clock read by new Date()
    pc,                     \* per caller: where its call or callback stands
    frame,                  \* per caller: the call's argument and what it has found
    last,                   \* the query answered or request sent last
    hooks                   \* the useState cells of the mounted client component

vars == <<forms, currentFormId, completions, currentCompletionId, now, pc, frame, last,
         hooks>>

----------------------------------------------------------------------------
(* Bounds of the model *)

MaxUsers == 2
MaxForms == 2
MaxNow == 1
MaxCompletionId == 2
NumCallers == 2
TicksPerDay == 2
Surplus == 2            \* completions of one form beyond the 'popular' threshold
NearDays == 1           \* ages of completions in days: inside both windows,
MidDays == 10           \*   between the two window starts,
FarDays == 40           \*   before both windows
MaxDays == 2            \* longest histogram asked for, in days before today
MaxLimit == 2           \* longest feed asked for, the default apart
MaxFeed == 3            \* completions of the user in the small stores
BigFeed == 15           \* completions of the user in the large store

(* Constants of the program *)

PopularThreshold == 20
WeekDays == 7
MonthDays == 30
MaxRating == 5
DefaultLimit == 10

SevenDays == WeekDays * TicksPerDay
MaxFill == PopularThreshold + Surplus

Users == 1..MaxUsers
FormIds == 1..MaxForms
Callers == 1..NumCallers

----------------------------------------------------------------------------
(* Optional values *)

Absent == <<>>
Some(x) == <<x>>
IsPresent(o) == o # <<>>
Value(o) == o[1]

RatingInputs == {Absent, Some(2), Some(4)}
FeedbackInputs == {Absent, Some("good")}

Min(S) == CHOOSE x \in S : \A y \in S : x <= y

\* The arguments markFormAsCompleted is called with: no rating, or a rating
\* with or without feedback.
InsertCompletions ==
    {i \in [formId : FormIds, userId : Users, rating : RatingInputs, feedback : FeedbackInputs] :
        i.rating = Absent => i.feedback = Absent}

\* Text is a sequence of one-character strings, so that case and containment
\* are computed on it.
SurveyTitle == <<"A", "b">>
SurveyDescription == <<"b", "a">>
SurveyTags == {"health"}

\* The forms createForm is called with in the mutation specifications.
InsertForms ==
    [createdBy : Users, title : {SurveyTitle}, description : {SurveyDescription},
     tags : {SurveyTags}]

\* A form as InitAgg inserts it.
surveyOf(createdBy) ==
    [createdBy |-> createdBy, title |-> SurveyTitle, description |-> SurveyDescription,
     tags |-> SurveyTags]

NoCall == [op |-> "none"]

\* No client component is mounted.
Unmounted == [component |-> "none"]

----------------------------------------------------------------------------
(* MemStorage: forms *)

createdForm(insertForm, id, t) ==
    [createdBy |-> insertForm.createdBy, title |-> insertForm.title, description |-> insertForm.description,
     tags |-> insertForm.tags, id |-> id, createdAt |-> t]

CreateForm(insertForm) ==
    /\ currentFormId <= MaxForms
    /\ LET id == currentFormId
           form == createdForm(insertForm, id, now)
       IN /\ currentFormId' = currentFormId + 1
          /\ forms' = [i \in DOMAIN forms \cup {id} |-> IF i = id THEN form ELSE forms[i]]
    /\ UNCHANGED <<completions, currentCompletionId, now, pc, frame, last, hooks>>

\* { ...existingForm, ...formUpdate }: a field of the update that is present
\* takes the place of the form's.
updatedForm(existingForm, formUpdate) ==
    [existingForm EXCEPT
        !.title = IF IsPresent(formUpdate.title) THEN Value(formUpdate.title) ELSE @,
        !.createdBy = IF IsPresent(formUpdate.createdBy) THEN Value(formUpdate.createdBy)
                      ELSE @]

\* The store after updateForm(id, formUpdate).
updateForm(id, formUpdate) ==
    IF id \notin DOMAIN forms THEN forms
    ELSE [forms EXCEPT ![id] = updatedForm(forms[id], formUpdate)]

\* deleteForm that removes the forms posted after the form as well.
deleteFormAndNewer(id) == [i \in {j \in DOMAIN forms : j < id} |-> forms[i]]

\* The store after deleteForm(id).
deleteForm(id) == [i \in DOMAIN forms \ {id} |-> forms[i]]

DeleteForm(id) ==
    /\ id \in DOMAIN forms
    /\ forms' = deleteForm(id)
    /\ UNCHANGED <<currentFormId, completions, currentCompletionId, now, pc, frame, last, hooks>>

----------------------------------------------------------------------------
(* MemStorage: completions *)

MatchesPair(c, formId, userId) == c.formId = formId /\ c.userId = userId

PairIds(store, formId, userId) ==
    {id \in DOMAIN store : MatchesPair(store[id], formId, userId)}

\* getCompletion with the user compared against the form id.
getCompletionWrongKey(formId, userId) ==
    LET hits == PairIds(completions, formId, formId)
    IN IF hits = {} THEN Absent ELSE Some(completions[Min(hits)])

getCompletion(formId, userId) ==
    LET hits == PairIds(completions, formId, userId)
    IN IF hits = {} THEN Absent ELSE Some(completions[Min(hits)])

\* updatedCompletion that keeps the old rating when the call brings none.
updatedCompletionKeepsRating(existing, ins, t) ==
    [existing EXCEPT !.rating = IF ins.rating = Absent THEN existing.rating ELSE ins.rating,
                     !.feedback = ins.feedback, !.completedAt = t]

updatedCompletion(existing, ins, t) ==
    [existing EXCEPT !.rating = ins.rating, !.feedback = ins.feedback, !.completedAt = t]

newCompletion(ins, id, t) ==
    [formId |-> ins.formId, userId |-> ins.userId, rating |-> ins.rating,
     feedback |-> ins.feedback, id |-> id, completedAt |-> t]

\* The part of markFormAsCompleted after its lookup returned `existing`.
WriteCompletion(ins, existing) ==
    IF IsPresent(existing)
    THEN LET updated == updatedCompletion(Value(existing), ins, now)
         IN /\ completions' = [i \in DOMAIN completions \cup {updated.id} |->
                                  IF i = updated.id THEN updated ELSE completions[i]]
            /\ UNCHANGED currentCompletionId
    ELSE LET id == currentCompletionId
             completion == newCompletion(ins, id, now)
         IN /\ currentCompletionId' = currentCompletionId + 1
            /\ completions' = [i \in DOMAIN completions \cup {id} |->
                                  IF i = id THEN completion ELSE completions[i]]

\* A call that runs to its end with no other call in between.
MarkFormAsCompleted(ins) ==
    /\ IsPresent(getCompletion(ins.formId, ins.userId)) \/ currentCompletionId <= MaxCompletionId
    /\ WriteCompletion(ins, getCompletion(ins.formId, ins.userId))
    /\ UNCHANGED <<forms, currentFormId, now, pc, frame, last, hooks>>

Tick ==
    /\ now < MaxNow
    /\ now' = now + 1
    /\ UNCHANGED <<forms, currentFormId, completions, currentCompletionId, pc, frame, last, hooks>>

----------------------------------------------------------------------------
(* The store used by one caller at a time *)

Init ==
    /\ forms = <<>>
    /\ currentFormId = 1
    /\ completions = <<>>
    /\ currentCompletionId = 1
    /\ now = 0
    /\ pc = [p \in Callers |-> "idle"]
    /\ frame = [p \in Callers |-> Absent]
    /\ last = NoCall
    /\ hooks = Unmounted

Next ==
    \/ \E insertForm \in InsertForms : CreateForm(insertForm)
    \/ \E id \in FormIds : DeleteForm(id)
    \/ \E ins \in InsertCompletions : MarkFormAsCompleted(ins)
    \/ Tick

Spec == Init /\ [][Next]_vars

----------------------------------------------------------------------------
(* markFormAsCompleted called by several callers at once: a call looks the   *)
(* pair up when it is made and writes when its await resumes; other calls    *)
(* run in between.                                                           *)

Call(p, ins) ==
    /\ pc[p] = "idle"
    /\ currentCompletionId + Cardinality({q \in Callers : pc[q] = "write"}) <= MaxCompletionId
    /\ frame' = [frame EXCEPT ![p] =
                    Some([existing |-> getCompletion(ins.formId, ins.userId), ins |-> ins])]
    /\ pc' = [pc EXCEPT ![p] = "write"]
    /\ UNCHANGED <<forms, currentFormId, completions, currentCompletionId, now, last, hooks>>

Resume(p) ==
    /\ pc[p] = "write"
    /\ WriteCompletion(Value(frame[p]).ins, Value(frame[p]).existing)
    /\ pc' = [pc EXCEPT ![p] = "idle"]
    /\ frame' = [frame EXCEPT ![p] = Absent]
    /\ UNCHANGED <<forms, currentFormId, now, last, hooks>>

NextConc ==
    \/ \E p \in Callers, ins \in InsertCompletions : Call(p, ins)
    \/ \E p \in Callers : Resume(p)
    \/ Tick

SpecConc == Init /\ [][NextConc]_vars

----------------------------------------------------------------------------
(* MemStorage.getForms *)

RECURSIVE SeqOfSet(_)
SeqOfSet(S) == IF S = {} THEN <<>> ELSE <<Min(S)>> \o SeqOfSet(S \ {Min(S)})

RECURSIVE Sum(_)
Sum(seq) == IF seq = <<>> THEN 0 ELSE seq[1] + Sum(Tail(seq))

\* Array.from(this.forms.values()): the forms in the order they were inserted.
formValues == [i \in 1..Cardinality(DOMAIN forms) |-> forms[SeqOfSet(DOMAIN forms)[i]]]

\* String.prototype.toLowerCase on the letters of the model.
lowerChar(c) == IF c = "A" THEN "a" ELSE IF c = "B" THEN "b" ELSE c

toLowerCase(s) == [i \in 1..Len(s) |-> lowerChar(s[i])]

\* String.prototype.includes: sub occurs in s as a contiguous piece.
includes(s, sub) ==
    \E i \in 0..(Len(s) - Len(sub)) : SubSeq(s, i + 1, i + Len(sub)) = sub

\* The three filters in the order of the code.  A filter is skipped when its
\* field is missing, when the tag list is empty and when the search text is
\* the empty string.
matchesTags(form, filters) ==
    (IsPresent(filters.tags) /\ Value(filters.tags) # {})
        => \E tag \in Value(filters.tags) : tag \in form.tags

matchesSearch(form, filters) ==
    (IsPresent(filters.search) /\ Value(filters.search) # <<>>)
        => LET searchLower == toLowerCase(Value(filters.search))
           IN \/ includes(toLowerCase(form.title), searchLower)
              \/ includes(toLowerCase(form.description), searchLower)

matchesOwner(form, filters) ==
    IsPresent(filters.userId) => form.createdBy = Value(filters.userId)

filterForms(filters) ==
    LET keep(form) ==
            /\ matchesTags(form, filters)
            /\ matchesSearch(form, filters)
            /\ matchesOwner(form, filters)
    IN SelectSeq(formValues, keep)

formCompletions(form) ==
    LET ofForm(c) == c.formId = form.id
    IN SelectSeq(completions, ofForm)

\* ratingsOf that takes a completion without a rating as a rating of 0.
ratingsOfUnfiltered(cs) ==
    [i \in 1..Len(cs) |-> IF IsPresent(cs[i].rating) THEN Value(cs[i].rating) ELSE 0]

ratingsOf(cs) ==
    LET rated(c) == IsPresent(c.rating)
        kept == SelectSeq(cs, rated)
    IN [i \in 1..Len(kept) |-> Value(kept[i].rating)]

Zero == [num |-> 0, den |-> 1]

\* average without the guard for the empty list: 0 / 0.
averageUnguarded(ratings) == [num |-> Sum(ratings), den |-> Len(ratings)]

average(ratings) ==
    IF Len(ratings) > 0 THEN [num |-> Sum(ratings), den |-> Len(ratings)] ELSE Zero

isCompletedFor(filters, cs) ==
    IF IsPresent(filters.userId)
    THEN Some(\E i \in 1..Len(cs) : cs[i].userId = Value(filters.userId))
    ELSE Absent

\* statusOf with 'new' tested before 'popular'.
statusOfNewFirst(form, cs, isCompleted, t) ==
    IF isCompleted = Some(TRUE) THEN Some("completed")
    ELSE IF t - form.createdAt < SevenDays THEN Some("new")
    ELSE IF Len(cs) > PopularThreshold THEN Some("popular")
    ELSE Absent

\* statusOf with 'popular' from the threshold on.
statusOfFromThreshold(form, cs, isCompleted, t) ==
    IF isCompleted = Some(TRUE) THEN Some("completed")
    ELSE IF Len(cs) >= PopularThreshold THEN Some("popular")
    ELSE IF t - form.createdAt < SevenDays THEN Some("new")
    ELSE Absent

\* statusOf with 'new' up to and including the seventh day.
statusOfWeekInclusive(form, cs, isCompleted, t) ==
    IF isCompleted = Some(TRUE) THEN Some("completed")
    ELSE IF Len(cs) > PopularThreshold THEN Some("popular")
    ELSE IF t - form.createdAt <= SevenDays THEN Some("new")
    ELSE Absent

statusOf(form, cs, isCompleted, t) ==
    IF isCompleted = Some(TRUE) THEN Some("completed")
    ELSE IF Len(cs) > PopularThreshold THEN Some("popular")
    ELSE IF t - form.createdAt < SevenDays THEN Some("new")
    ELSE Absent

formWithStats(form, filters) ==
    LET cs == formCompletions(form)
        ratings == ratingsOf(cs)
        isCompleted == isCompletedFor(filters, cs)
    IN [rating |-> average(ratings), createdBy |-> form.createdBy, title |-> form.title,
        description |-> form.description, tags |-> form.tags, id |-> form.id,
        createdAt |-> form.createdAt,
        isCompleted |-> isCompleted,
        reviewCount |-> Len(ratings),
        status |-> statusOf(form, cs, isCompleted, now)]

getForms(filters) ==
    LET kept == filterForms(filters)
    IN [i \in 1..Len(kept) |-> formWithStats(kept[i], filters)]

----------------------------------------------------------------------------
(* DatabaseStorage.getForms: the rows it selects, before the statistics are  *)
(* attached.                                                                 *)

\* like(column, `%${search}%`): the column contains the text, letter for
\* letter; PostgreSQL's LIKE tells upper case from lower case.
like(text, search) == includes(text, search)

\* The condition of the query.  Each call of where() sets the condition of
\* the query, so the condition on the text, when there is one, takes the
\* place of the condition on createdBy.
dbWhere(form, filters) ==
    IF IsPresent(filters.search) /\ Value(filters.search) # <<>>
    THEN \/ like(form.title, Value(filters.search))
         \/ like(form.description, Value(filters.search))
    ELSE IsPresent(filters.userId) => form.createdBy = Value(filters.userId)

dbFilterForms(filters) ==
    LET selected(form) == dbWhere(form, filters)
        allForms == SelectSeq(formValues, selected)
        tagged(form) == \E tag \in Value(filters.tags) : tag \in form.tags
    IN IF IsPresent(filters.tags) /\ Value(filters.tags) # {}
       THEN SelectSeq(allForms, tagged)
       ELSE allForms

----------------------------------------------------------------------------
(* MemStorage.getUserStats *)

subDays(t, days) == t - days * TicksPerDay

RECURSIVE ratingsOfForms(_)
ratingsOfForms(userForms) ==
    IF userForms = <<>> THEN <<>>
    ELSE ratingsOf(formCompletions(userForms[1])) \o ratingsOfForms(Tail(userForms))

\* The mean over the rated forms of each form's own mean.
RECURSIVE sumOfFormMeans(_)
sumOfFormMeans(userForms) ==
    IF userForms = <<>> THEN [forms |-> 0, num |-> 0, den |-> 1]
    ELSE LET rest == sumOfFormMeans(Tail(userForms))
             ratings == ratingsOf(formCompletions(userForms[1]))
         IN IF Len(ratings) = 0 THEN rest
            ELSE [forms |-> rest.forms + 1,
                  num |-> rest.num * Len(ratings) + Sum(ratings) * rest.den,
                  den |-> rest.den * Len(ratings)]

ratingOfFormMeans(userForms) ==
    LET s == sumOfFormMeans(userForms)
    IN IF s.forms > 0 THEN [num |-> s.num, den |-> s.den * s.forms] ELSE Zero

\* totalRating / ratedCompletionsCount over the completions of the user's forms.
ratingOfForms(userForms) == average(ratingsOfForms(userForms))

\* inWindow that leaves out the completion made at the first instant of the window.
inWindowExclusive(c, start) == c.completedAt > start

\* inWindow with the comparison turned round.
inWindowBefore(c, start) == c.completedAt <= start

\* new Date(c.completedAt) >= start
inWindow(c, start) == c.completedAt >= start

getUserStats(userId) ==
    LET mine(c) == c.userId = userId
        allCompletions == SelectSeq(completions, mine)
        last7Days == subDays(now, WeekDays)
        last30Days == subDays(now, MonthDays)
        in7(c) == inWindow(c, last7Days)
        in30(c) == inWindow(c, last30Days)
        posted(form) == form.createdBy = userId
        userForms == SelectSeq(formValues, posted)
    IN [last7Days |-> Len(SelectSeq(allCompletions, in7)),
        last30Days |-> Len(SelectSeq(allCompletions, in30)),
        totalFilled |-> Len(allCompletions),
        formsPosted |-> Len(userForms),
        avgRating |-> ratingOfForms(userForms)]

----------------------------------------------------------------------------
(* getActivityData.  A date string "YYYY-MM-DD" is the number of its day:    *)
(* toISOString().split('T')[0] keeps the day a time falls on, and new        *)
(* Date(dateStr) is the first instant of that day.                           *)

dateStrOf(t) == t \div TicksPerDay

dateOfStr(dateStr) == dateStr * TicksPerDay

\* initialisedDates whose loop stops one day early.
initialisedDatesShort(days) == {dateStrOf(subDays(now, i)) : i \in 0..(days - 1)}

\* The keys the loop "for (let i = 0; i <= days; i++)" sets to 0.
initialisedDates(days) == {dateStrOf(subDays(now, i)) : i \in 0..days}

\* Object.entries(result) sorted by date: counted holds the ids of the
\* completions that were counted.
histogramOf(days, counted) ==
    LET keys == initialisedDates(days) \cup {dateStrOf(completions[i].completedAt) : i \in counted}
        ordered == SeqOfSet(keys)
    IN [k \in 1..Len(ordered) |->
          [date |-> ordered[k],
           count |-> Cardinality({i \in counted :
                                    dateStrOf(completions[i].completedAt) = ordered[k]})]]

\* MemStorage and FirebaseServerStorage: a completion is counted when the
\* first instant of its day is not before startDate.
getActivityData(userId, days) ==
    LET startDate == subDays(now, days)
        counted == {i \in DOMAIN completions :
                      /\ completions[i].userId = userId
                      /\ dateOfStr(dateStrOf(completions[i].completedAt)) >= startDate}
    IN histogramOf(days, counted)

\* DatabaseStorage: the query keeps the completions made at or after startDate
\* and every one of them is counted.
dbGetActivityData(userId, days) ==
    LET startDate == subDays(now, days)
        counted == {i \in DOMAIN completions :
                      /\ completions[i].userId = userId
                      /\ completions[i].completedAt >= startDate}
    IN histogramOf(days, counted)

----------------------------------------------------------------------------
(* MemStorage.getRecentActivities *)

UnknownForm == <<"U", "n", "k", "n", "o", "w", "n", " ", "F", "o", "r", "m">>

\* Array.prototype.sort with (a, b) => at(b) - at(a), at[i] being the time of
\* seq[i]: descending, and equal elements keep their order.
sortDesc(seq, at) ==
    LET place(i) ==
            Cardinality({j \in 1..Len(seq) :
                            \/ at[j] > at[i]
                            \/ at[j] = at[i] /\ j <= i})
    IN [k \in 1..Len(seq) |-> seq[CHOOSE i \in 1..Len(seq) : place(i) = k]]

\* Array.prototype.slice(0, limit); a negative limit counts from the end.
slice(seq, limit) ==
    IF limit >= 0 THEN SubSeq(seq, 1, Min({limit, Len(seq)}))
    ELSE SubSeq(seq, 1, Len(seq) + limit)

completedAtOf(cs) == [k \in 1..Len(cs) |-> cs[k].completedAt]
createdAtOf(fs) == [k \in 1..Len(fs) |-> fs[k].createdAt]
dateOf(activities) == [k \in 1..Len(activities) |-> activities[k].date]

sortCompletions(cs) == sortDesc(cs, completedAtOf(cs))
sortForms(fs) == sortDesc(fs, createdAtOf(fs))
sortActivities(activities) == sortDesc(activities, dateOf(activities))

\* recentCompletions that cuts before it sorts.
recentCompletionsUnsorted(userId, limit) ==
    LET mine(c) == c.userId = userId
    IN sortCompletions(slice(SelectSeq(completions, mine), limit))

recentCompletions(userId, limit) ==
    LET mine(c) == c.userId = userId
    IN slice(sortCompletions(SelectSeq(completions, mine)), limit)

recentForms(userId, limit) ==
    LET posted(form) == form.createdBy = userId
    IN slice(sortForms(SelectSeq(formValues, posted)), limit)

\* formTitleOf that puts the placeholder only where the form is missing.
formTitleOfNullish(formId) ==
    IF formId \in DOMAIN forms THEN forms[formId].title ELSE UnknownForm

\* form?.title || 'Unknown Form': the placeholder stands for a missing form
\* and for a title that is the empty string.
formTitleOf(formId) ==
    IF formId \in DOMAIN forms /\ forms[formId].title # <<>>
    THEN forms[formId].title
    ELSE UnknownForm

completionActivity(c) ==
    [formId |-> c.formId, rating |-> c.rating, feedback |-> c.feedback,
     id |-> c.id, date |-> c.completedAt, formTitle |-> formTitleOf(c.formId),
     activityType |-> "completed"]

\* A posted entry has no rating and no feedback.
formActivity(form) ==
    [formId |-> form.id, rating |-> Absent, feedback |-> Absent,
     id |-> form.id, date |-> form.createdAt, formTitle |-> form.title,
     activityType |-> "posted"]

activitiesOf(userCompletions, userForms) ==
    [k \in 1..Len(userCompletions) |-> completionActivity(userCompletions[k])]
        \o [k \in 1..Len(userForms) |-> formActivity(userForms[k])]

\* getRecentActivities without the last slice.
getRecentActivitiesUncut(userId, limit) ==
    sortActivities(activitiesOf(recentCompletions(userId, limit), recentForms(userId, limit)))

getRecentActivities(userId, limit) ==
    slice(sortActivities(activitiesOf(recentCompletions(userId, limit),
                                      recentForms(userId, limit))),
          limit)

----------------------------------------------------------------------------
(* The queries, on a store filled by earlier calls *)

OptUsers == {Absent} \cup {Some(u) : u \in Users}
Viewers == OptUsers \cup {Some(MaxFill)}
RatingChoices == {Absent, Some(1), Some(4), Some(MaxRating)}
FillSizes == {0, 2, 3} \cup PopularThreshold..MaxFill
AggNow == SevenDays + 1
CreatedAtChoices == {AggNow - SevenDays - 1, AggNow - SevenDays, AggNow - SevenDays + 1}

GetForms(filters) ==
    /\ last' = [op |-> "getForms", filters |-> filters, user |-> Absent,
                result |-> getForms(filters)]
    /\ UNCHANGED <<forms, currentFormId, completions, currentCompletionId, now, pc, frame, hooks>>

\* GET /api/forms: userId is the query parameter, user the session's user.
ApiGetForms(req) ==
    LET filters == [userId |-> req.userId, tags |-> req.tags, search |-> req.search,
                    completed |-> req.user]
    IN /\ last' = [op |-> "GET /api/forms", filters |-> filters, user |-> req.user,
                   result |-> getForms(filters)]
       /\ UNCHANGED <<forms, currentFormId, completions, currentCompletionId, now, pc, frame, hooks>>

GetUserStats(userId) ==
    /\ last' = [userId |-> userId, op |-> "getUserStats", result |-> getUserStats(userId)]
    /\ UNCHANGED <<forms, currentFormId, completions, currentCompletionId, now, pc, frame, hooks>>

\* Form 1 was posted by user 1 at time c1, a week before now to the tick, one
\* tick less or one tick more, and completed at once by users 1..n; form 2 was
\* posted now and completed by user MaxFill or by nobody.
InitAgg ==
    \E owner2 \in Users, c1 \in CreatedAtChoices, n \in FillSizes,
       r1 \in RatingChoices, r2 \in {Absent, Some(2)}, rest \in {Absent, Some(MaxRating)},
       other \in {Absent} \cup {Some(r) : r \in {Absent, Some(1), Some(MaxRating)}} :
        LET rate(i) == IF i = 1 THEN r1 ELSE IF i = 2 THEN r2 ELSE rest
            first == [i \in 1..n |->
                        [formId |-> 1, userId |-> i, rating |-> rate(i), feedback |-> Absent,
                         id |-> i, completedAt |-> c1]]
            second == IF other = Absent THEN <<>>
                      ELSE <<[formId |-> 2, userId |-> MaxFill, rating |-> Value(other),
                              feedback |-> Absent, id |-> n + 1,
                              completedAt |-> AggNow]>>
        IN /\ forms = <<createdForm(surveyOf(1), 1, c1),
                        createdForm(surveyOf(owner2), 2, AggNow)>>
           /\ currentFormId = 3
           /\ completions = first \o second
           /\ currentCompletionId = Len(first \o second) + 1
           /\ now = AggNow
           /\ pc = [p \in Callers |-> "idle"]
           /\ frame = [p \in Callers |-> Absent]
           /\ last = NoCall
           /\ hooks = Unmounted

NextAgg ==
    \/ \E userId \in OptUsers :
            GetForms([userId |-> userId, tags |-> Absent, search |-> Absent,
                      completed |-> Absent])
    \/ \E req \in [userId : OptUsers, tags : {Absent}, search : {Absent}, user : Viewers] :
            ApiGetForms(req)
    \/ \E userId \in Users : GetUserStats(userId)

SpecAgg == InitAgg /\ [][NextAgg]_vars

----------------------------------------------------------------------------
(* getForms with tags, search text and owner, in both backends *)

DbGetForms(filters) ==
    /\ last' = [op |-> "dbGetForms", filters |-> filters, user |-> Absent,
                result |-> dbFilterForms(filters)]
    /\ UNCHANGED <<forms, currentFormId, completions, currentCompletionId, now, pc, frame, hooks>>

FilterTitles == {SurveyTitle, <<"b", "a">>}
FilterDescriptions == {SurveyDescription, <<"B">>}
FilterTags == {{}, {"health"}, {"health", "work"}}
TagFilters == {Absent, Some({}), Some({"health"}), Some({"work", "food"})}
SearchFilters == {Absent, Some(<<>>), Some(<<"a">>), Some(<<"A", "B">>), Some(<<"b", "a">>)}
FormFilters == [userId : OptUsers, tags : TagFilters, search : SearchFilters, completed : {Absent}]

\* Two forms were posted; nobody has completed one.
InitFilter ==
    \E first \in [createdBy : Users, title : FilterTitles, description : FilterDescriptions,
                   tags : FilterTags],
       second \in [createdBy : Users, title : FilterTitles, description : {SurveyDescription},
                    tags : {SurveyTags}] :
        /\ forms = <<createdForm(first, 1, 0), createdForm(second, 2, 0)>>
        /\ currentFormId = 3
        /\ completions = <<>>
        /\ currentCompletionId = 1
        /\ now = 0
        /\ pc = [p \in Callers |-> "idle"]
        /\ frame = [p \in Callers |-> Absent]
        /\ last = NoCall
        /\ hooks = Unmounted

NextFilter ==
    \/ \E filters \in FormFilters : GetForms(filters)
    \/ \E filters \in FormFilters : DbGetForms(filters)

SpecFilter == InitFilter /\ [][NextFilter]_vars

----------------------------------------------------------------------------
(* POST /api/forms, PUT /api/forms/:id and DELETE /api/forms/:id.  A request *)
(* carries the user of its session (none when it is not authenticated), the  *)
(* id of its path and its body; last keeps the user, the id and the status   *)
(* of the response.                                                          *)

NewTitle == <<"B", "a">>

\* A body insertFormSchema.partial() rejects, and the bodies it accepts: any
\* of title and createdBy, or neither.
PutBodies ==
    {[createdBy |-> Absent, title |-> Absent, valid |-> FALSE]}
        \cup [createdBy : OptUsers, title : {Absent, Some(NewTitle)}, valid : {TRUE}]

PathIds == 1..(MaxForms + 1)
\* createdBy is the one the body of the request carries.
PostRequests == [createdBy : OptUsers, user : OptUsers, valid : BOOLEAN]
PutRequests == [id : PathIds, user : OptUsers, body : PutBodies]
DeleteRequests == [id : PathIds, user : OptUsers]

\* ownerStatus of a handler that lets every authenticated user through.
ownerStatusAnyUser(req) ==
    IF req.user = Absent THEN 401
    ELSE IF req.id \notin DOMAIN forms THEN 404
    ELSE 200

\* The checks PUT and DELETE share: the status they return, or 200 when the
\* request passes them all.
ownerStatus(req) ==
    IF req.user = Absent THEN 401
    ELSE IF req.id \notin DOMAIN forms THEN 404
    ELSE IF forms[req.id].createdBy # Value(req.user) THEN 403
    ELSE 200

\* { ...req.body, createdBy: req.user.id }
postedForm(req) ==
    [surveyOf(IF IsPresent(req.createdBy) THEN Value(req.createdBy) ELSE Value(req.user))
        EXCEPT !.createdBy = Value(req.user)]

ApiPostForm(req) ==
    /\ (req.user # Absent /\ req.valid) => currentFormId <= MaxForms
    /\ IF req.user = Absent
       THEN /\ last' = [op |-> "POST /api/forms", status |-> 401, user |-> req.user]
            /\ UNCHANGED <<forms, currentFormId>>
       ELSE IF ~req.valid
       THEN /\ last' = [op |-> "POST /api/forms", status |-> 400, user |-> req.user]
            /\ UNCHANGED <<forms, currentFormId>>
       ELSE LET id == currentFormId
                form == createdForm(postedForm(req), id, now)
            IN /\ currentFormId' = currentFormId + 1
               /\ forms' = [i \in DOMAIN forms \cup {id} |->
                               IF i = id THEN form ELSE forms[i]]
               /\ last' = [createdBy |-> req.createdBy, op |-> "POST /api/forms",
                           status |-> 201, user |-> req.user]
    /\ UNCHANGED <<completions, currentCompletionId, now, pc, frame, hooks>>

ApiPutForm(req) ==
    LET checked == ownerStatus(req)
        status == IF checked # 200 THEN checked ELSE IF ~req.body.valid THEN 400 ELSE 200
    IN /\ forms' = IF status = 200 THEN updateForm(req.id, req.body) ELSE forms
       /\ last' = [op |-> "PUT /api/forms/:id", id |-> req.id, status |-> status,
                   user |-> req.user]
       /\ UNCHANGED <<currentFormId, completions, currentCompletionId, now, pc, frame, hooks>>

ApiDeleteForm(req) ==
    LET checked == ownerStatus(req)
        status == IF checked # 200 THEN checked ELSE 204
    IN /\ forms' = IF status = 204 THEN deleteForm(req.id) ELSE forms
       /\ last' = [op |-> "DELETE /api/forms/:id", id |-> req.id, status |-> status,
                   user |-> req.user]
       /\ UNCHANGED <<currentFormId, completions, currentCompletionId, now, pc, frame, hooks>>

NextApi ==
    \/ \E req \in PostRequests : ApiPostForm(req)
    \/ \E req \in PutRequests : ApiPutForm(req)
    \/ \E req \in DeleteRequests : ApiDeleteForm(req)

SpecApi == Init /\ [][NextApi]_vars

----------------------------------------------------------------------------
(* POST /api/forms/:id/complete.  The body carries a rating, which          *)
(* insertCompletionSchema may reject, and may carry a userId; last keeps    *)
(* the id of the path, the user of the session, the userId of the body and  *)
(* the status.                                                               *)

CompleteBodies == [userId : OptUsers, rating : {Absent, Some(4)}, valid : BOOLEAN]
CompleteRequests == [id : PathIds, user : OptUsers, body : CompleteBodies]

\* completionOf that takes the userId of the body when there is one.
completionOfBody(req) ==
    [formId |-> req.id,
     userId |-> IF IsPresent(req.body.userId) THEN Value(req.body.userId)
                ELSE Value(req.user),
     rating |-> req.body.rating, feedback |-> Absent]

\* The object the handler validates: formId of the path, userId of the
\* session, rating and feedback of the body.
completionOf(req) ==
    [formId |-> req.id, userId |-> Value(req.user), rating |-> req.body.rating,
     feedback |-> Absent]

completeStatus(req) ==
    IF req.user = Absent THEN 401
    ELSE IF req.id \notin DOMAIN forms THEN 404
    ELSE IF ~req.body.valid THEN 400
    ELSE 201

ApiCompleteForm(req) ==
    LET status == completeStatus(req)
    IN /\ IF status = 201
          THEN LET ins == completionOf(req)
               IN /\ \/ IsPresent(getCompletion(ins.formId, ins.userId))
                     \/ currentCompletionId <= MaxCompletionId
                  /\ WriteCompletion(ins, getCompletion(ins.formId, ins.userId))
          ELSE UNCHANGED <<completions, currentCompletionId>>
       /\ last' = [userId |-> req.body.userId, op |-> "POST /api/forms/:id/complete",
                   id |-> req.id, status |-> status, user |-> req.user]
       /\ UNCHANGED <<forms, currentFormId, now, pc, frame, hooks>>

NextComplete ==
    \/ \E req \in PostRequests : ApiPostForm(req)
    \/ \E req \in DeleteRequests : ApiDeleteForm(req)
    \/ \E req \in CompleteRequests : ApiCompleteForm(req)

SpecComplete == Init /\ [][NextComplete]_vars

----------------------------------------------------------------------------
(* The statistics, the histogram and the feed of one user, on the stores     *)
(* that calls of markFormAsCompleted, createForm and deleteForm leave.       *)

GetActivityData(userId, days) ==
    /\ last' = [userId |-> userId, op |-> "getActivityData", days |-> days,
                result |-> getActivityData(userId, days)]
    /\ UNCHANGED <<forms, currentFormId, completions, currentCompletionId, now, pc, frame, hooks>>

DbGetActivityData(userId, days) ==
    /\ last' = [userId |-> userId, op |-> "dbGetActivityData", days |-> days,
                result |-> dbGetActivityData(userId, days)]
    /\ UNCHANGED <<forms, currentFormId, completions, currentCompletionId, now, pc, frame, hooks>>

GetRecentActivities(userId, limit) ==
    /\ last' = [userId |-> userId, op |-> "getRecentActivities", limit |-> limit,
                result |-> getRecentActivities(userId, limit)]
    /\ UNCHANGED <<forms, currentFormId, completions, currentCompletionId, now, pc, frame, hooks>>

\* The first instant of a day that lies FarDays after time 0.
UserNow == FarDays * TicksPerDay
ThirtyDays == MonthDays * TicksPerDay

\* Ages of completions, in ticks before now, on both sides of the two windows
\* of getUserStats.
StatAges ==
    {NearDays * TicksPerDay, SevenDays - 1, SevenDays, SevenDays + 1, MidDays * TicksPerDay,
     ThirtyDays - 1, ThirtyDays, ThirtyDays + 1, FarDays * TicksPerDay}

\* Ages that fall on every day of the longest histogram and on the day before.
ActivityAges == 0..((MaxDays + 1) * TicksPerDay)

DayCounts == 0..MaxDays
Limits == (-1)..MaxLimit \cup {DefaultLimit}
Titles == {<<>>, SurveyTitle}

\* User userId completed the forms 1, 2, ... at the given times.
completionsAt(userId, times) ==
    [i \in 1..Len(times) |->
        [formId |-> i, userId |-> userId, rating |-> Absent, feedback |-> Absent,
         id |-> i, completedAt |-> times[i]]]

\* No call is in progress and none has returned.
Quiet ==
    /\ pc = [p \in Callers |-> "idle"]
    /\ frame = [p \in Callers |-> Absent]
    /\ last = NoCall
    /\ hooks = Unmounted

OldestFirst(ages) == \A i, j \in DOMAIN ages : i < j => ages[i] >= ages[j]

\* User 1 completed up to MaxFeed forms at ages around the window starts and
\* user 2 completed one form now; the forms were deleted since.
InitStats ==
    \E k \in 0..MaxFeed : \E ages \in [1..k -> StatAges] :
        /\ OldestFirst(ages)
        /\ forms = <<>>
        /\ currentFormId = k + 1
        /\ completions = completionsAt(1, [i \in 1..k |-> UserNow - ages[i]])
                            \o <<[formId |-> 1, userId |-> 2, rating |-> Some(4), feedback |-> Absent,
                                  id |-> k + 1, completedAt |-> UserNow]>>
        /\ currentCompletionId = k + 2
        /\ now = UserNow
        /\ Quiet

\* User 1 completed up to MaxDays forms in the days before now, and now is
\* the first instant of a day or the last.
InitActivity ==
    \E k \in 0..MaxDays, t \in {0, TicksPerDay - 1} : \E ages \in [1..k -> ActivityAges] :
        /\ OldestFirst(ages)
        /\ forms = <<>>
        /\ currentFormId = k + 1
        /\ completions = completionsAt(1, [i \in 1..k |-> UserNow + t - ages[i]])
        /\ currentCompletionId = k + 1
        /\ now = UserNow + t
        /\ Quiet

\* User 1 posted the forms 1..nF and completed the forms 1..nC, of which those
\* above nF are deleted or belong to user 2, who posted one form and
\* completed one; the times are one tick apart or equal, in any order.
InitFeed ==
    \E nC \in 0..MaxFeed, nF \in 0..MaxForms, title \in Titles :
      \E ages \in [1..nC -> {0, 1}], posted \in [1..nF -> {0, 1}] :
        LET mine == [i \in 1..nF |->
                        createdForm([surveyOf(1) EXCEPT !.title = IF i = 1 THEN title
                                                                  ELSE SurveyTitle],
                                    i, UserNow - posted[i])]
            theirs == <<createdForm(surveyOf(2), nF + 1, UserNow)>>
            done == completionsAt(1, [i \in 1..nC |-> UserNow - ages[i]])
            alsoDone == <<[formId |-> 1, userId |-> 2, rating |-> Absent, feedback |-> Absent,
                           id |-> nC + 1, completedAt |-> UserNow]>>
        IN /\ forms = mine \o theirs
           /\ currentFormId = Len(mine \o theirs) + 1
           /\ completions = done \o alsoDone
           /\ currentCompletionId = Len(done \o alsoDone) + 1
           /\ now = UserNow
           /\ Quiet

\* User 1 completed BigFeed forms, one at every tick of the last day and
\* before, and posted two forms before, among or after them.
InitBigFeed ==
    \E p1, p2 \in {0, BigFeed \div 2, BigFeed + 1} :
        /\ forms = <<createdForm(surveyOf(1), 1, UserNow - p1),
                      createdForm(surveyOf(1), 2, UserNow - p2)>>
        /\ currentFormId = 3
        /\ completions = completionsAt(1, [i \in 1..BigFeed |-> UserNow - (BigFeed + 1 - i)])
        /\ currentCompletionId = BigFeed + 1
        /\ now = UserNow
        /\ Quiet

InitUser == InitStats \/ InitActivity \/ InitFeed \/ InitBigFeed

NextUser ==
    \/ \E userId \in Users : GetUserStats(userId)
    \/ \E userId \in Users, days \in DayCounts : GetActivityData(userId, days)
    \/ \E userId \in Users, days \in DayCounts : DbGetActivityData(userId, days)
    \/ \E userId \in Users, limit \in Limits : GetRecentActivities(userId, limit)

SpecUser == InitUser /\ [][NextUser]_vars

----------------------------------------------------------------------------
(* FirebaseServerStorage.  forms and completions hold the documents of the   *)
(* collections 'forms' and 'completions'; a document id is a fresh number.   *)
(* The client's FirebaseStorage has the same markFormAsCompleted and         *)
(* getUserStats, statement for statement.                                    *)

\* The document createForm adds: formData, then createdAt, rating, reviewCount.
fbCreatedForm(formData, id, t) ==
    [rating |-> 0, createdBy |-> formData.createdBy, title |-> formData.title,
     description |-> formData.description, tags |-> formData.tags, id |-> id,
     createdAt |-> t, reviewCount |-> 0]

FbCreateForm(formData) ==
    /\ currentFormId <= MaxForms
    /\ LET id == currentFormId
           form == fbCreatedForm(formData, id, now)
       IN /\ currentFormId' = currentFormId + 1
          /\ forms' = [i \in DOMAIN forms \cup {id} |-> IF i = id THEN form ELSE forms[i]]
          /\ last' = [op |-> "createForm", id |-> id]
    /\ UNCHANGED <<completions, currentCompletionId, now, pc, frame, hooks>>

\* where('formId', '==', formId).where('userId', '==', userId)
fbExistingQuery(formId, userId) ==
    LET matches(c) == MatchesPair(c, formId, userId)
    IN SelectSeq(completions, matches)

\* if (rating): a rating that is given and is not 0.
fbTruthy(rating) == IsPresent(rating) /\ Value(rating) # 0

\* update({reviewCount: FieldValue.increment(1)}); the update of a document
\* that does not exist is refused and changes nothing.
fbIncrementReviewCount(formId) ==
    IF formId \in DOMAIN forms
    THEN [forms EXCEPT ![formId].reviewCount = @ + 1]
    ELSE forms

FbMarkFormAsCompleted(formId, userId, rating, feedback) ==
    LET existingQuery == fbExistingQuery(formId, userId)
    IN /\ IF existingQuery # <<>>
          THEN LET doc == existingQuery[1]
               IN /\ completions' = [completions EXCEPT ![doc.id] =
                                        [@ EXCEPT !.rating = rating, !.feedback = feedback,
                                                  !.completedAt = now]]
                  /\ UNCHANGED <<forms, currentCompletionId>>
          ELSE LET id == currentCompletionId
                   completion == [formId |-> formId, userId |-> userId, rating |-> rating,
                                  feedback |-> feedback, id |-> id,
                                  completedAt |-> now]
               IN /\ currentCompletionId <= MaxCompletionId
                  /\ currentCompletionId' = currentCompletionId + 1
                  /\ completions' = [i \in DOMAIN completions \cup {id} |->
                                        IF i = id THEN completion ELSE completions[i]]
                  /\ forms' = IF fbTruthy(rating) THEN fbIncrementReviewCount(formId)
                              ELSE forms
       /\ last' = [op |-> "markFormAsCompleted", id |-> formId]
       /\ UNCHANGED <<currentFormId, now, pc, frame, hooks>>

\* where('userId', '==', userId).orderBy('completedAt', 'desc')
fbGetUserCompletions(userId) ==
    LET mine(c) == c.userId = userId
    IN sortCompletions(SelectSeq(completions, mine))

\* 'completed', else 'popular' by the stored reviewCount, else 'new'.
fbStatusOf(form, isCompleted, t) ==
    IF isCompleted THEN Some("completed")
    ELSE IF form.reviewCount > PopularThreshold THEN Some("popular")
    ELSE IF t - form.createdAt < SevenDays THEN Some("new")
    ELSE Absent

\* A document as getForms returns it: isCompleted and status are added only
\* when filters.userId is given.
fbFormWithStatus(form, filters) ==
    LET cs == IF IsPresent(filters.userId)
              THEN fbGetUserCompletions(Value(filters.userId)) ELSE <<>>
        isCompleted == \E i \in 1..Len(cs) : cs[i].formId = form.id
    IN [rating |-> form.rating, createdBy |-> form.createdBy, title |-> form.title,
        description |-> form.description, tags |-> form.tags, id |-> form.id,
        createdAt |-> form.createdAt,
        isCompleted |-> IF IsPresent(filters.userId) THEN Some(isCompleted) ELSE Absent,
        reviewCount |-> form.reviewCount,
        status |-> IF IsPresent(filters.userId) THEN fbStatusOf(form, isCompleted, now)
                   ELSE Absent]

fbGetForms(filters) ==
    LET owned(form) == matchesOwner(form, filters)
        query == sortForms(SelectSeq(formValues, owned))
        keep(form) == matchesTags(form, filters) /\ matchesSearch(form, filters)
        kept == SelectSeq(query, keep)
    IN [i \in 1..Len(kept) |-> fbFormWithStatus(kept[i], filters)]

\* totalRating and ratedCount after the loop over userForms.
RECURSIVE fbRatingTotals(_)
fbRatingTotals(userForms) ==
    IF userForms = <<>> THEN [totalRating |-> 0, ratedCount |-> 0]
    ELSE LET form == userForms[1]
             rest == fbRatingTotals(Tail(userForms))
         IN IF form.rating # 0 /\ form.reviewCount > 0
            THEN [totalRating |-> rest.totalRating + form.rating * form.reviewCount,
                  ratedCount |-> rest.ratedCount + form.reviewCount]
            ELSE rest

fbGetUserStats(userId) ==
    LET allCompletions == fbGetUserCompletions(userId)
        userForms == fbGetForms([userId |-> Some(userId), tags |-> Absent,
                                 search |-> Absent])
        last7Days == subDays(now, WeekDays)
        last30Days == subDays(now, MonthDays)
        in7(c) == inWindow(c, last7Days)
        in30(c) == inWindow(c, last30Days)
        totals == fbRatingTotals(userForms)
    IN [last7Days |-> Len(SelectSeq(allCompletions, in7)),
        last30Days |-> Len(SelectSeq(allCompletions, in30)),
        totalFilled |-> Len(allCompletions),
        formsPosted |-> Len(userForms),
        avgRating |-> IF totals.ratedCount > 0
                      THEN [num |-> totals.totalRating, den |-> totals.ratedCount]
                      ELSE Zero]

FbGetForms(filters) ==
    /\ last' = [op |-> "fbGetForms", filters |-> filters, result |-> fbGetForms(filters)]
    /\ UNCHANGED <<forms, currentFormId, completions, currentCompletionId, now, pc, frame, hooks>>

FbGetUserStats(userId) ==
    /\ last' = [userId |-> userId, op |-> "fbGetUserStats",
                result |-> fbGetUserStats(userId)]
    /\ UNCHANGED <<forms, currentFormId, completions, currentCompletionId, now, pc, frame, hooks>>

NextFire ==
    \/ \E formData \in InsertForms : FbCreateForm(formData)
    \/ \E formId \in FormIds, userId \in Users, rating \in RatingInputs :
            FbMarkFormAsCompleted(formId, userId, rating, Absent)
    \/ \E userId \in OptUsers :
            FbGetForms([userId |-> userId, tags |-> Absent, search |-> Absent])
    \/ \E userId \in Users : FbGetUserStats(userId)
    \/ Tick

SpecFire == Init /\ [][NextFire]_vars

----------------------------------------------------------------------------
(* verifyFirebaseToken.  frame[p] is the request p is handling with what the *)
(* middleware has done to it so far: req.user, the status of the response    *)
(* sent and the number of calls of next.                                      *)

BearerPrefix == <<"B", "e", "a", "r", "e", "r", " ">>
BasicPrefix == <<"B", "a", "s", "i", "c", " ">>

\* The id tokens of the users: "t" and the digit of u is the one issued to user u;
\* every other text is no token.
Digits == <<"1", "2", "3", "4", "5", "6", "7", "8", "9">>
TokenOf(u) == <<"t", Digits[u]>>
Headers ==
    {Absent, Some(BearerPrefix), Some(BasicPrefix \o TokenOf(1)),
     Some(BearerPrefix \o <<"x">>), Some(<<"b">> \o Tail(BearerPrefix) \o TokenOf(1))}
        \cup {Some(BearerPrefix \o TokenOf(u)) : u \in Users}
        \cup {Some(BearerPrefix \o TokenOf(1) \o BearerPrefix \o TokenOf(u)) : u \in Users}

startsWith(s, prefix) ==
    Len(s) >= Len(prefix) /\ SubSeq(s, 1, Len(prefix)) = prefix

\* The places where sep occurs in s.
occurrences(s, sep) ==
    {i \in 1..(Len(s) - Len(sep) + 1) : SubSeq(s, i, i + Len(sep) - 1) = sep}

\* s.split(sep)[1] for an s that starts with sep: the text after the first
\* sep up to the next one.
splitSecond(s, sep) ==
    LET rest == SubSeq(s, Len(sep) + 1, Len(s))
        next == occurrences(rest, sep)
    IN IF next = {} THEN rest ELSE SubSeq(rest, 1, Min(next) - 1)

\* What adminAuth.verifyIdToken can resolve to: the uid the token was issued
\* to.  It rejects every other text, and may reject a token as well (expired,
\* revoked, service unreachable).
decodedUids(token) == {u \in Users : TokenOf(u) = token}

\* What getUser can return for a uid: the profile, or null when the document
\* does not exist or the read failed.
ProfileOutcomes == {"exists", "missing", "error"}

\* verifyFirebaseToken that lets the request through whatever getUser returned.
afterGetUserUnchecked(request, outcome) ==
    [request EXCEPT !.profile = Some(outcome),
                    !.user = request.decoded,
                    !.nextCalls = @ + 1]

\* The request after getUser returned: 401 for no profile, else req.user is
\* attached and next is called.
afterGetUser(request, outcome) ==
    IF outcome # "exists"
    THEN [request EXCEPT !.profile = Some(outcome), !.status = Some(401)]
    ELSE [request EXCEPT !.profile = Some(outcome),
                         !.user = request.decoded,
                         !.nextCalls = @ + 1]

\* The middleware up to its first await.
ReceiveRequest(p, authHeader) ==
    /\ pc[p] = "idle"
    /\ LET request == [status |-> Absent, user |-> Absent, profile |-> Absent,
                       decoded |-> Absent, nextCalls |-> 0,
                       authorization |-> authHeader]
       IN IF authHeader = Absent \/ ~startsWith(Value(authHeader), BearerPrefix)
          THEN /\ frame' = [frame EXCEPT ![p] = [request EXCEPT !.status = Some(401)]]
               /\ pc' = [pc EXCEPT ![p] = "done"]
          ELSE /\ frame' = [frame EXCEPT ![p] = request]
               /\ pc' = [pc EXCEPT ![p] = "verifyIdToken"]
    /\ UNCHANGED <<forms, currentFormId, completions, currentCompletionId, now, last, hooks>>

\* await adminAuth.verifyIdToken(token) settles: resolved with the uid, or
\* rejected, which the catch answers with 401.
VerifyIdToken(p, resolved) ==
    /\ pc[p] = "verifyIdToken"
    /\ LET token == splitSecond(Value(frame[p].authorization), BearerPrefix)
       IN IF resolved
          THEN \E uid \in decodedUids(token) :
                  /\ frame' = [frame EXCEPT ![p].decoded = Some(uid)]
                  /\ pc' = [pc EXCEPT ![p] = "getUser"]
          ELSE /\ frame' = [frame EXCEPT ![p].status = Some(401)]
               /\ pc' = [pc EXCEPT ![p] = "done"]
    /\ UNCHANGED <<forms, currentFormId, completions, currentCompletionId, now, last, hooks>>

\* await firebaseServerStorage.getUser(uid) settles, and the middleware runs
\* to its end.
GetUser(p, outcome) ==
    /\ pc[p] = "getUser"
    /\ frame' = [frame EXCEPT ![p] = afterGetUser(frame[p], outcome)]
    /\ pc' = [pc EXCEPT ![p] = "done"]
    /\ UNCHANGED <<forms, currentFormId, completions, currentCompletionId, now, last, hooks>>

NextAuth ==
    \/ \E p \in Callers, authHeader \in Headers : ReceiveRequest(p, authHeader)
    \/ \E p \in Callers, resolved \in BOOLEAN : VerifyIdToken(p, resolved)
    \/ \E p \in Callers, outcome \in ProfileOutcomes : GetUser(p, outcome)

SpecAuth == Init /\ [][NextAuth]_vars

----------------------------------------------------------------------------
(* FirebaseAuthProvider.  hooks holds user, userProfile and isLoading; a     *)
(* caller is one invocation of the onAuthStateChanged listener, frame[p] the *)
(* user it was invoked with while its getDoc is awaited.  The profile        *)
(* document of user u is the number u.                                        *)

ProviderMounted ==
    [component |-> "FirebaseAuthProvider", user |-> Absent, userProfile |-> Absent,
     isLoading |-> TRUE]

\* How getDoc can settle: with a document that exists, with one that does
\* not (register writes it only after the account is created and the
\* listener has run), or with an error.
DocOutcomes == {"exists", "missing", "error"}

\* The listener up to its await: setUser(user), and for no user
\* setUserProfile(null) and setIsLoading(false).
AuthStateChanged(p, user) ==
    /\ pc[p] = "idle"
    /\ hooks.isLoading \/ user # hooks.user
    /\ IF user # Absent
       THEN /\ hooks' = [hooks EXCEPT !.user = user]
            /\ pc' = [pc EXCEPT ![p] = "getDoc"]
            /\ frame' = [frame EXCEPT ![p] = user]
       ELSE /\ hooks' = [hooks EXCEPT !.user = Absent, !.userProfile = Absent,
                                      !.isLoading = FALSE]
            /\ UNCHANGED <<pc, frame>>
    /\ UNCHANGED <<forms, currentFormId, completions, currentCompletionId, now, last>>

\* The listener after its await: setUserProfile(userDoc.data()) if the
\* document exists, and setIsLoading(false).
GetDocSettles(p, outcome) ==
    /\ pc[p] = "getDoc"
    /\ hooks' = [hooks EXCEPT
                    !.userProfile = IF outcome = "exists" THEN frame[p] ELSE @,
                    !.isLoading = FALSE]
    /\ pc' = [pc EXCEPT ![p] = "idle"]
    /\ frame' = [frame EXCEPT ![p] = Absent]
    /\ last' = [userId |-> Value(frame[p]), op |-> "getDoc", result |-> outcome]
    /\ UNCHANGED <<forms, currentFormId, completions, currentCompletionId, now>>

InitProvider ==
    /\ forms = <<>>
    /\ currentFormId = 1
    /\ completions = <<>>
    /\ currentCompletionId = 1
    /\ now = 0
    /\ pc = [p \in Callers |-> "idle"]
    /\ frame = [p \in Callers |-> Absent]
    /\ last = NoCall
    /\ hooks = ProviderMounted

NextProvider ==
    \/ \E p \in Callers, user \in OptUsers : AuthStateChanged(p, user)
    \/ \E p \in Callers, outcome \in DocOutcomes : GetDocSettles(p, outcome)

SpecProvider == InitProvider /\ [][NextProvider]_vars

----------------------------------------------------------------------------
(* RatingDialog.  hooks holds rating, feedback and hoveredStar, and isPending *)
(* of submitRatingMutation; last is the request the mutation sent, or the     *)
(* toast shown instead.                                                       *)

Stars == 1..MaxRating
FeedbackTexts == {<<>>, <<" ">>, <<"o", "k">>, <<" ", "o", "k", " ">>}

DialogMounted ==
    [rating |-> 0, feedback |-> <<>>, component |-> "RatingDialog",
     hoveredStar |-> Absent, isPending |-> FALSE]

RECURSIVE trimStart(_)
trimStart(s) == IF s # <<>> /\ Head(s) = " " THEN trimStart(Tail(s)) ELSE s

RECURSIVE trimEnd(_)
trimEnd(s) ==
    IF s # <<>> /\ s[Len(s)] = " " THEN trimEnd(SubSeq(s, 1, Len(s) - 1)) ELSE s

trim(s) == trimEnd(trimStart(s))

\* The body of mutationFn: { rating, feedback: feedback.trim() || undefined }.
requestBody(state) ==
    [rating |-> Some(state.rating),
     feedback |-> IF trim(state.feedback) # <<>> THEN Some(trim(state.feedback)) ELSE Absent]

\* submitRatingMutation.mutate() called by handler.
Mutate(handler) ==
    /\ hooks' = [hooks EXCEPT !.isPending = TRUE]
    /\ last' = [op |-> "POST /api/forms/:id/complete", body |-> requestBody(hooks),
                handler |-> handler]

HandleStarClick(selectedRating) ==
    /\ hooks' = [hooks EXCEPT !.rating = selectedRating]
    /\ UNCHANGED <<forms, currentFormId, completions, currentCompletionId, now, pc, frame,
                   last>>

SetHoveredStar(star) ==
    /\ hooks.hoveredStar # star
    /\ hooks' = [hooks EXCEPT !.hoveredStar = star]
    /\ UNCHANGED <<forms, currentFormId, completions, currentCompletionId, now, pc, frame,
                   last>>

SetFeedback(text) ==
    /\ hooks' = [hooks EXCEPT !.feedback = text]
    /\ UNCHANGED <<forms, currentFormId, completions, currentCompletionId, now, pc, frame,
                   last>>

\* The Skip button, disabled while the mutation is pending.
HandleSkip ==
    /\ ~hooks.isPending
    /\ Mutate("handleSkip")
    /\ UNCHANGED <<forms, currentFormId, completions, currentCompletionId, now, pc, frame>>

\* The Submit button, disabled while the mutation is pending.
HandleSubmit ==
    /\ ~hooks.isPending
    /\ IF hooks.rating = 0
       THEN /\ last' = [op |-> "toast", handler |-> "handleSubmit"]
            /\ UNCHANGED hooks
       ELSE Mutate("handleSubmit")
    /\ UNCHANGED <<forms, currentFormId, completions, currentCompletionId, now, pc, frame>>

\* The request is answered: onSuccess or onError.
MutationSettles ==
    /\ hooks.isPending
    /\ hooks' = [hooks EXCEPT !.isPending = FALSE]
    /\ UNCHANGED <<forms, currentFormId, completions, currentCompletionId, now, pc, frame,
                   last>>

InitDialog ==
    /\ forms = <<>>
    /\ currentFormId = 1
    /\ completions = <<>>
    /\ currentCompletionId = 1
    /\ now = 0
    /\ pc = [p \in Callers |-> "idle"]
    /\ frame = [p \in Callers |-> Absent]
    /\ last = NoCall
    /\ hooks = DialogMounted

NextDialog ==
    \/ \E selectedRating \in Stars : HandleStarClick(selectedRating)
    \/ \E star \in {Absent} \cup {Some(n) : n \in Stars} : SetHoveredStar(star)
    \/ \E text \in FeedbackTexts : SetFeedback(text)
    \/ HandleSkip
    \/ HandleSubmit
    \/ MutationSettles

SpecDialog == InitDialog /\ [][NextDialog]_vars

----------------------------------------------------------------------------
(* MemStorage with forms posted, completed and deleted; the completions      *)
(* carry no feedback.                                                         *)

PlainCompletions == {ins \in InsertCompletions : ins.feedback = Absent}

NextDelete ==
    \/ \E insertForm \in InsertForms : CreateForm(insertForm)
    \/ \E id \in FormIds : DeleteForm(id)
    \/ \E ins \in PlainCompletions : MarkFormAsCompleted(ins)
    \/ Tick

SpecDelete == Init /\ [][NextDelete]_vars

----------------------------------------------------------------------------
(* Properties of the completion store *)

PairCount(store, formId, userId) == Cardinality(PairIds(store, formId, userId))

\* A record that was written again after a later record was created.
Rewritten(i) ==
    \E j \in DOMAIN completions : i < j /\ completions[i].completedAt > completions[j].completedAt

\* C1: with the calls executed one at a time, the store holds at most one
\* Completion for every (formId, userId) pair, and a markFormAsCompleted call for
\* a pair that has a Completion changes that record and adds none.
C1_OneCompletionPerPair ==
    /\ [](\A f \in FormIds, u \in Users : PairCount(completions, f, u) <= 1)
    /\ [][\A ins \in InsertCompletions :
            (PairIds(completions, ins.formId, ins.userId) # {} /\ MarkFormAsCompleted(ins))
                => /\ DOMAIN completions' = DOMAIN completions
                   /\ PairIds(completions', ins.formId, ins.userId)
                        = PairIds(completions, ins.formId, ins.userId)
                   /\ \A i \in DOMAIN completions :
                        ~MatchesPair(completions[i], ins.formId, ins.userId)
                            => completions'[i] = completions[i]]_vars

\* Two pairs are recorded and the older record is the one written last.
C1_Witness ==
    /\ Cardinality(DOMAIN completions) = 2
    /\ completions[1].userId # completions[2].userId
    /\ Rewritten(1)

\* C2: when markFormAsCompleted calls for one pair interleave, every write leaves
\* exactly one Completion for the pair, and it carries the rating and feedback of
\* the call that wrote.
C2_ConcurrentCallsCollapse ==
    [][\A p \in Callers :
          (pc[p] = "write" /\ pc'[p] = "idle")
              => LET ins == Value(frame[p]).ins
                     ids == PairIds(completions', ins.formId, ins.userId)
                 IN /\ Cardinality(ids) = 1
                    /\ \A id \in ids : /\ completions'[id].rating = ins.rating
                                       /\ completions'[id].feedback = ins.feedback]_vars

----------------------------------------------------------------------------
(* Properties of the listing and of the statistics, stated on the store *)

Listing == last.op \in {"getForms", "GET /api/forms"}
Listed == {last.result[i] : i \in DOMAIN last.result}

CompletionsOf(formId) == {i \in DOMAIN completions : completions[i].formId = formId}
RatedOf(formId) == {i \in CompletionsOf(formId) : completions[i].rating # Absent}
HasCompleted(userId, formId) ==
    \E i \in CompletionsOf(formId) : completions[i].userId = userId

RECURSIVE RatingSum(_)
RatingSum(ids) ==
    IF ids = {} THEN 0
    ELSE LET i == CHOOSE x \in ids : TRUE
         IN Value(completions[i].rating) + RatingSum(ids \ {i})

\* The fraction q is the mean of the ratings of the completions ids.
IsMeanOf(q, ids) == q.den > 0 /\ q.num * Cardinality(ids) = RatingSum(ids) * q.den

\* The viewer getForms is given (filters.userId) has completed the form.
ViewerDone(r) ==
    IsPresent(last.filters.userId) /\ HasCompleted(Value(last.filters.userId), r.id)
Popular(r) == Cardinality(CompletionsOf(r.id)) > PopularThreshold
Young(r) == now - r.createdAt < SevenDays

\* C4: the status of getForms is the first that matches of completed (the viewer
\* has completed the form), popular (more than 20 completions) and new (younger
\* than 7 days): a form the viewer completed is 'completed' whatever else holds,
\* and a popular form not completed by the viewer is 'popular', young or not.
C4_StatusPriority ==
    Listing =>
        \A r \in Listed :
            /\ ViewerDone(r) => r.status = Some("completed")
            /\ (~ViewerDone(r) /\ Popular(r)) => r.status = Some("popular")
            /\ r.status = Some("popular") => ~ViewerDone(r)
            /\ r.status = Some("new") => (~ViewerDone(r) /\ ~Popular(r))

\* A form the viewer completed, with more than 20 completions and younger than
\* 7 days, is listed as completed.
C4_Witness ==
    /\ Listing
    /\ \E r \in Listed :
        ViewerDone(r) /\ Popular(r) /\ Young(r) /\ r.status = Some("completed")

\* C5: in the answer of GET /api/forms to an authenticated viewer a form has
\* isCompleted = true and status completed exactly if the viewer has a Completion
\* on it; with no viewer, isCompleted is not computed and no form is completed.
C5_CompletedIsTheViewers ==
    last.op = "GET /api/forms" =>
        \A r \in Listed :
            IF IsPresent(last.user)
            THEN (r.isCompleted = Some(TRUE) /\ r.status = Some("completed"))
                    <=> HasCompleted(Value(last.user), r.id)
            ELSE r.isCompleted = Absent /\ r.status # Some("completed")

\* C6: a form not completed by the viewer is 'popular' exactly if it has more
\* than 20 Completions, rated or not.
C6_PopularAboveThreshold ==
    Listing =>
        \A r \in Listed :
            ~ViewerDone(r) =>
                (r.status = Some("popular")
                    <=> Cardinality(CompletionsOf(r.id)) > PopularThreshold)

\* A form with 21 completions, some of them unrated, is listed as popular.
C6_Witness ==
    /\ Listing
    /\ \E r \in Listed :
        /\ ~ViewerDone(r)
        /\ Cardinality(CompletionsOf(r.id)) = PopularThreshold + 1
        /\ RatedOf(r.id) # CompletionsOf(r.id)
        /\ r.status = Some("popular")

\* C7: a form neither completed by the viewer nor popular is 'new' exactly if
\* now - createdAt is less than 7 days; from 7 days on it has no status.
C7_NewWithinAWeek ==
    Listing =>
        \A r \in Listed :
            (~ViewerDone(r) /\ ~Popular(r)) =>
                /\ r.status = Some("new") <=> now - r.createdAt < SevenDays
                /\ now - r.createdAt >= SevenDays => r.status = Absent

\* A form that is 7 days old to the tick is listed without a status.
C7_Witness ==
    /\ Listing
    /\ \E r \in Listed :
        /\ ~ViewerDone(r)
        /\ ~Popular(r)
        /\ now - r.createdAt = SevenDays
        /\ r.status = Absent

\* C8: rating is the mean of the ratings of the form's rated Completions and
\* exactly 0 when there is none; reviewCount is the number of rated Completions.
C8_RatingIsMeanOfRated ==
    Listing =>
        \A r \in Listed :
            /\ r.reviewCount = Cardinality(RatedOf(r.id))
            /\ IF RatedOf(r.id) = {} THEN r.rating = Zero
               ELSE IsMeanOf(r.rating, RatedOf(r.id))

\* Ratings 4, 2 and none give rating 3 and reviewCount 2.
C8_Witness ==
    /\ Listing
    /\ \E r \in Listed :
        /\ Cardinality(CompletionsOf(r.id)) = 3
        /\ {completions[i].rating : i \in CompletionsOf(r.id)} = {Some(4), Some(2), Absent}
        /\ r.reviewCount = 2
        /\ r.rating.num = 3 * r.rating.den

\* C9: with ratings absent or in 1..5, reviewCount is at most the number of the
\* form's Completions, rating is within [0, 5] when reviewCount > 0 and is 0 when
\* reviewCount = 0.
C9_RatingInRange ==
    (Listing /\ \A i \in DOMAIN completions :
                    completions[i].rating \in {Absent} \cup {Some(x) : x \in 1..MaxRating}) =>
        \A r \in Listed :
            /\ r.reviewCount <= Cardinality(CompletionsOf(r.id))
            /\ r.reviewCount > 0 =>
                (r.rating.den > 0 /\ 0 <= r.rating.num /\ r.rating.num <= MaxRating * r.rating.den)
            /\ r.reviewCount = 0 => r.rating = Zero

\* One listing with a form rated 5 by some of its completers and a form whose
\* only completion is unrated.
C9_Witness ==
    /\ Listing
    /\ \E r \in Listed :
        /\ 0 < r.reviewCount
        /\ r.reviewCount < Cardinality(CompletionsOf(r.id))
        /\ r.rating.num = MaxRating * r.rating.den
    /\ \E r \in Listed :
        /\ CompletionsOf(r.id) # {}
        /\ r.reviewCount = 0
        /\ r.rating = Zero

OwnedBy(userId) == {f \in DOMAIN forms : forms[f].createdBy = userId}
RatedOfOwner(userId) ==
    {i \in DOMAIN completions :
        completions[i].formId \in OwnedBy(userId) /\ completions[i].rating # Absent}

\* C10: avgRating of getUserStats is the sum of the ratings of all rated
\* Completions of the forms the user owns divided by their number, and 0 when
\* there is none.
C10_AvgRatingIsPooled ==
    last.op = "getUserStats" =>
        IF RatedOfOwner(last.userId) = {} THEN last.result.avgRating = Zero
        ELSE IsMeanOf(last.result.avgRating, RatedOfOwner(last.userId))

\* The user owns two forms with different numbers of ratings, and the mean of
\* the two forms' means is another number than avgRating.
C10_Witness ==
    /\ last.op = "getUserStats"
    /\ OwnedBy(last.userId) = {1, 2}
    /\ Cardinality(RatedOf(1)) > Cardinality(RatedOf(2))
    /\ RatedOf(2) # {}
    /\ LET m == ratingOfFormMeans(formValues)
       IN m.num * last.result.avgRating.den # last.result.avgRating.num * m.den

----------------------------------------------------------------------------
(* Properties of the statistics, the histogram and the feed of a user *)

CompletionsBy(userId) == {i \in DOMAIN completions : completions[i].userId = userId}

\* The user's completions made at or after time start.
Since(userId, start) == {i \in CompletionsBy(userId) : completions[i].completedAt >= start}

AgesOf(userId) == {now - completions[i].completedAt : i \in CompletionsBy(userId)}

\* C11: for every user and every store, getUserStats returns
\* last7Days <= last30Days <= totalFilled.
C11_WindowsNested ==
    last.op = "getUserStats" =>
        /\ last.result.last7Days <= last.result.last30Days
        /\ last.result.last30Days <= last.result.totalFilled

\* The three numbers differ and none is 0.
C11_Witness ==
    /\ last.op = "getUserStats"
    /\ 0 < last.result.last7Days
    /\ last.result.last7Days < last.result.last30Days
    /\ last.result.last30Days < last.result.totalFilled

\* C12: last7Days and last30Days count the user's Completions with
\* completedAt >= now - 7 days and >= now - 30 days, the first instant of the
\* window included, and totalFilled counts all of them; completions made 1,
\* 10 and 40 days ago give 1, 2 and 3.
C12_WindowCounts ==
    last.op = "getUserStats" =>
        /\ last.result.last7Days
              = Cardinality(Since(last.userId, now - WeekDays * TicksPerDay))
        /\ last.result.last30Days
              = Cardinality(Since(last.userId, now - MonthDays * TicksPerDay))
        /\ last.result.totalFilled = Cardinality(CompletionsBy(last.userId))
        /\ (/\ Cardinality(CompletionsBy(last.userId)) = 3
            /\ AgesOf(last.userId)
                  = {NearDays * TicksPerDay, MidDays * TicksPerDay, FarDays * TicksPerDay})
              => /\ last.result.last7Days = 1
                 /\ last.result.last30Days = 2
                 /\ last.result.totalFilled = 3

\* One completion was made 7 days ago to the tick, one 30 days ago to the
\* tick and one a tick earlier: the first two are counted.
C12_Witness ==
    /\ last.op = "getUserStats"
    /\ AgesOf(last.userId) = {SevenDays, ThirtyDays, ThirtyDays + 1}
    /\ last.result.last7Days = 1
    /\ last.result.last30Days = 2
    /\ last.result.totalFilled = 3

Histogram == last.op \in {"getActivityData", "dbGetActivityData"}

Today == dateStrOf(now)

\* The user's completions made on day d.
OnDay(userId, d) ==
    {i \in CompletionsBy(userId) : dateStrOf(completions[i].completedAt) = d}

\* C13: getActivityData returns days + 1 entries, one for each day from
\* now - days to now in ascending order, none missing and none repeated, and
\* a day on which the user completed nothing has count 0.
C13_OneEntryPerDay ==
    Histogram =>
        /\ Len(last.result) = last.days + 1
        /\ \A k \in 1..Len(last.result) :
              /\ last.result[k].date = Today - last.days + (k - 1)
              /\ OnDay(last.userId, last.result[k].date) = {} => last.result[k].count = 0

\* A histogram of MaxDays + 1 days with a day that has completions and a day
\* that has none.
C13_Witness ==
    /\ last.op = "getActivityData"
    /\ last.days = MaxDays
    /\ \E k \in 1..Len(last.result) : last.result[k].count > 0
    /\ \E k \in 1..Len(last.result) :
          last.result[k].count = 0 /\ OnDay(last.userId, last.result[k].date) = {}

\* C14: the count of each day of the window, the earliest included, is the
\* number of the user's Completions made on that day.
C14_CountsPerDay ==
    last.op = "getActivityData" =>
        \A k \in 1..Len(last.result) :
            last.result[k].count = Cardinality(OnDay(last.userId, last.result[k].date))

Feed == last.op = "getRecentActivities"

Descending(feed) == \A j, k \in 1..Len(feed) : j < k => feed[j].date >= feed[k].date

\* Entry e reports a completion of the user, or a form the user posted.
OwnEvent(e, userId) ==
    \/ /\ e.activityType = "completed"
       /\ e.id \in CompletionsBy(userId)
       /\ e.formId = completions[e.id].formId
       /\ e.date = completions[e.id].completedAt
    \/ /\ e.activityType = "posted"
       /\ e.id \in OwnedBy(userId)
       /\ e.formId = e.id
       /\ e.date = forms[e.id].createdAt

\* C15: for a limit that is not negative, getRecentActivities returns at most
\* limit entries, the most recent first, each a 'completed' event of one of
\* the user's Completions or a 'posted' event of a form the user created.
C15_FeedBoundedOrderedOwn ==
    (Feed /\ last.limit >= 0) =>
        /\ Len(last.result) <= last.limit
        /\ Descending(last.result)
        /\ \A k \in 1..Len(last.result) : OwnEvent(last.result[k], last.userId)

\* The user has more events than the limit, the other user has events too,
\* and the feed is full and holds an event of either kind.
C15_Witness ==
    /\ Feed
    /\ last.limit = MaxLimit
    /\ Len(last.result) = last.limit
    /\ Cardinality(CompletionsBy(last.userId)) + Cardinality(OwnedBy(last.userId)) > last.limit
    /\ \E u \in Users \ {last.userId} : CompletionsBy(u) # {} /\ OwnedBy(u) # {}
    /\ \E j, k \in 1..Len(last.result) :
          last.result[j].activityType = "completed" /\ last.result[k].activityType = "posted"

\* All events of the user merged, sorted with the most recent first, then cut.
mergeThenCut(userId, limit) ==
    LET mine(c) == c.userId = userId
        posted(form) == form.createdBy = userId
    IN slice(sortActivities(activitiesOf(SelectSeq(completions, mine),
                                         SelectSeq(formValues, posted))),
             limit)

\* The store of the example: BigFeed completions and two postings of user 1.
BigFeedStore ==
    /\ Cardinality(CompletionsBy(1)) = BigFeed
    /\ Cardinality(OwnedBy(1)) = 2

\* C16 as stated: with 15 completions, 2 postings and limit 10 the feed
\* differs from the user's events merged first and then cut to the limit.
C16_TwoStageDiffers ==
    (Feed /\ BigFeedStore /\ last.userId = 1 /\ last.limit = DefaultLimit)
        => last.result # mergeThenCut(last.userId, last.limit)

\* C16 amended: for every limit that is not negative the feed, cut in two
\* stages, is the user's events merged first and then cut to the limit; the
\* example of 15 completions, 2 postings and limit 10 is no exception.
C16_TwoStageIsMergeThenCut ==
    (Feed /\ last.limit >= 0) => last.result = mergeThenCut(last.userId, last.limit)

\* The example: the first stage drops completions, and the feed holds a
\* posting and completions.
C16_Witness ==
    /\ Feed
    /\ BigFeedStore
    /\ last.userId = 1
    /\ last.limit = DefaultLimit
    /\ Len(recentCompletions(1, DefaultLimit)) < Cardinality(CompletionsBy(1))
    /\ Len(last.result) = DefaultLimit
    /\ \E j, k \in 1..Len(last.result) :
          last.result[j].activityType = "completed" /\ last.result[k].activityType = "posted"

CompletedEntries == {k \in 1..Len(last.result) : last.result[k].activityType = "completed"}

\* C17 as stated: a 'completed' entry carries 'Unknown Form' when its form id
\* does not resolve and the form's title when it does.
C17_TitleOrPlaceholder ==
    Feed =>
        \A k \in CompletedEntries :
            LET e == last.result[k]
            IN e.formTitle = IF e.formId \in DOMAIN forms THEN forms[e.formId].title
                             ELSE UnknownForm

\* C17 amended: a 'completed' entry carries the form's title when its form id
\* resolves to a form whose title is not empty, and 'Unknown Form' when the
\* id does not resolve or the title is the empty string; with a limit that
\* covers the user's events every Completion of the user has its entry.
C17_TitleUnlessMissingOrEmpty ==
    Feed =>
        /\ \A k \in CompletedEntries :
              LET e == last.result[k]
              IN e.formTitle = IF e.formId \in DOMAIN forms /\ forms[e.formId].title # <<>>
                               THEN forms[e.formId].title
                               ELSE UnknownForm
        /\ last.limit >= Cardinality(CompletionsBy(last.userId))
                            + Cardinality(OwnedBy(last.userId))
              => {last.result[k].id : k \in CompletedEntries} = CompletionsBy(last.userId)

\* A feed with an entry of a deleted form and an entry of a form with a title.
C17_Witness ==
    /\ Feed
    /\ \E k \in CompletedEntries :
          /\ last.result[k].formId \notin DOMAIN forms
          /\ last.result[k].formTitle = UnknownForm
    /\ \E k \in CompletedEntries :
          /\ last.result[k].formId \in DOMAIN forms
          /\ last.result[k].formTitle = SurveyTitle

\* The user has no Completion and has posted no form.
NoEvents(userId) == CompletionsBy(userId) = {} /\ OwnedBy(userId) = {}

\* C19: for a user with no Completions and no posted forms getUserStats
\* returns 0 for the four counts and for avgRating, getActivityData returns
\* days + 1 entries with count 0, and getRecentActivities returns no entry.
C19_EmptyUser ==
    /\ (last.op = "getUserStats" /\ NoEvents(last.userId))
          => /\ last.result.totalFilled = 0
             /\ last.result.last7Days = 0
             /\ last.result.last30Days = 0
             /\ last.result.formsPosted = 0
             /\ last.result.avgRating = Zero
    /\ (last.op = "getActivityData" /\ NoEvents(last.userId))
          => /\ Len(last.result) = last.days + 1
             /\ \A k \in 1..Len(last.result) : last.result[k].count = 0
    /\ (Feed /\ NoEvents(last.userId)) => last.result = <<>>

\* The statistics of a user without events, in a store that holds events of
\* the other user.
C19_Witness ==
    /\ last.op = "getUserStats"
    /\ NoEvents(last.userId)
    /\ completions # <<>>
    /\ last.result.totalFilled = 0
    /\ last.result.avgRating = Zero

----------------------------------------------------------------------------
(* Properties of the filters of getForms *)

HasOneOf(form, tags) == form.tags \cap tags # {}

\* The text, without regard to case, occurs in the title or the description.
Mentions(form, text) ==
    \/ includes(toLowerCase(form.title), toLowerCase(text))
    \/ includes(toLowerCase(form.description), toLowerCase(text))

\* The form passes every dimension the filters supply.
Passes(form, filters) ==
    /\ (IsPresent(filters.tags) /\ Value(filters.tags) # {})
          => HasOneOf(form, Value(filters.tags))
    /\ IsPresent(filters.search) => Mentions(form, Value(filters.search))
    /\ IsPresent(filters.userId) => form.createdBy = Value(filters.userId)

ReturnedIds == {last.result[k].id : k \in 1..Len(last.result)}

\* C18: in the in-memory and in the database backend getForms returns the
\* forms that pass every supplied dimension at once: one of the tags, the
\* search text without regard to case, and the owner.
C18_FiltersCompose ==
    last.op \in {"getForms", "dbGetForms"} =>
        ReturnedIds = {f \in DOMAIN forms : Passes(forms[f], last.filters)}

----------------------------------------------------------------------------
(* Properties of the handlers that change and delete a form *)

\* The status the checks give to the request of user req.user for the form
\* req.id, 0 when none refuses it: 401 without a session, else 404 for an
\* unknown form, else 403 for another user's form.
Refusal(req) ==
    IF req.user = Absent THEN 401
    ELSE IF req.id \notin DOMAIN forms THEN 404
    ELSE IF forms[req.id].createdBy # Value(req.user) THEN 403
    ELSE 0

\* C20: PUT and DELETE /api/forms/:id answer 401 to a request without a
\* session, 404 for an unknown form and 403 to a user who is not the form's
\* createdBy, checked in that order, and then leave the forms as they are; a
\* request that changes or deletes a form comes from the form's createdBy.
C20_OnlyOwnerChangesForm ==
    [][/\ last'.op = "PUT /api/forms/:id" =>
            /\ Refusal(last') # 0 => (last'.status = Refusal(last') /\ forms' = forms)
            /\ Refusal(last') = 0 => last'.status \in {200, 400}
            /\ forms' # forms => forms[last'.id].createdBy = Value(last'.user)
       /\ last'.op = "DELETE /api/forms/:id" =>
            /\ Refusal(last') # 0 => (last'.status = Refusal(last') /\ forms' = forms)
            /\ Refusal(last') = 0 => last'.status = 204
            /\ forms' # forms => forms[last'.id].createdBy = Value(last'.user)]_vars

\* A user has just been refused a change of the other user's form, and the
\* form has the title it was posted with.
C20_Witness ==
    /\ last.op = "PUT /api/forms/:id"
    /\ last.status = 403
    /\ last.id \in DOMAIN forms
    /\ forms[last.id].createdBy # Value(last.user)
    /\ forms[last.id].title = SurveyTitle

----------------------------------------------------------------------------
(* Properties of the handler that records a completion *)

Completing == last.op = "POST /api/forms/:id/complete"

\* The records of completions that are new in store or differ from before.
Written(before, store) ==
    {i \in DOMAIN store : i \notin DOMAIN before \/ store[i] # before[i]}

\* C21: POST /api/forms/:id/complete answers 401 without a session and 404
\* for an unknown form and then leaves the completions as they are; only a
\* request it answers 201 writes, and what it writes is the Completion of the
\* form of the path under the id of the session's user, whatever userId the
\* body carries.
C21_CompletesForSessionUser ==
    [][last'.op = "POST /api/forms/:id/complete" =>
          /\ last'.user = Absent => (last'.status = 401 /\ completions' = completions)
          /\ (last'.user # Absent /\ last'.id \notin DOMAIN forms)
                => (last'.status = 404 /\ completions' = completions)
          /\ last'.status # 201 => completions' = completions
          /\ last'.status = 201 =>
                /\ last'.user # Absent
                /\ last'.id \in DOMAIN forms
                /\ DOMAIN completions \subseteq DOMAIN completions'
                /\ PairCount(completions', last'.id, Value(last'.user)) >= 1
                /\ \A i \in Written(completions, completions') :
                      /\ completions'[i].formId = last'.id
                      /\ completions'[i].userId = Value(last'.user)]_vars

\* A request whose body names the other user was answered 201, and the only
\* Completion of the store is the session's user's.
C21_Witness ==
    /\ Completing
    /\ last.status = 201
    /\ IsPresent(last.userId)
    /\ last.userId # last.user
    /\ completions # <<>>
    /\ \A i \in DOMAIN completions : completions[i].userId = Value(last.user)

----------------------------------------------------------------------------
(* Properties of the Firebase store *)

\* C22: the reviewCount stored on a form is the number of the form's
\* Completions that have a rating, after any sequence of markFormAsCompleted
\* calls.
C22_ReviewCountIsRatedCount ==
    \A f \in DOMAIN forms : forms[f].reviewCount = Cardinality(RatedOf(f))

\* C23: avgRating of the Firebase getUserStats is the sum of the ratings of
\* all rated Completions of the forms the user owns divided by their number,
\* and 0 when there is none.
C23_FirebaseAvgRatingIsPooled ==
    last.op = "fbGetUserStats" =>
        IF RatedOfOwner(last.userId) = {} THEN last.result.avgRating = Zero
        ELSE IsMeanOf(last.result.avgRating, RatedOfOwner(last.userId))

\* The status MemStorage.getForms gives the form id under the same filters.
MemStatusOf(id, filters) ==
    LET listed == getForms([userId |-> filters.userId, tags |-> filters.tags,
                            search |-> filters.search, completed |-> Absent])
    IN {listed[i].status : i \in {j \in DOMAIN listed : listed[j].id = id}}

\* C24: every form FirebaseServerStorage.getForms returns has the status
\* MemStorage.getForms gives it for the same forms and Completions, with and
\* without a userId filter.
C24_FirebaseStatusIsMemStatus ==
    last.op = "fbGetForms" =>
        \A i \in DOMAIN last.result :
            MemStatusOf(last.result[i].id, last.filters) = {last.result[i].status}

----------------------------------------------------------------------------
(* MemStorage and DatabaseStorage side by side *)

\* C25: for the same user, Completions, days and instant, getActivityData of
\* MemStorage returns the entries getActivityData of DatabaseStorage returns,
\* the count of the earliest day of the window included.
C25_MemAndDbHistogramsAgree ==
    last.op = "getActivityData" =>
        last.result = dbGetActivityData(last.userId, last.days)

----------------------------------------------------------------------------
(* Properties of verifyFirebaseToken *)

Handled == {p \in Callers : pc[p] = "done"}
LetThrough(p) == frame[p].nextCalls > 0
Answered401(p) == frame[p].status = Some(401)
BearerRequest(p) ==
    /\ frame[p].authorization # Absent
    /\ startsWith(Value(frame[p].authorization), BearerPrefix)

\* C26: a request is let through only with req.user attached, for a Bearer
\* token that verified and whose profile exists; every other request is
\* answered 401 and next is not called; and a handled request got exactly one
\* of the two, once.
C26_NextOrUnauthorized ==
    /\ \A p \in Callers : pc[p] # "idle" =>
          /\ frame[p].nextCalls <= 1
          /\ ~(LetThrough(p) /\ frame[p].status # Absent)
          /\ frame[p].status \in {Absent, Some(401)}
    /\ \A p \in Handled :
          /\ LetThrough(p) \/ Answered401(p)
          /\ LetThrough(p) <=>
                /\ BearerRequest(p)
                /\ frame[p].decoded # Absent
                /\ frame[p].profile = Some("exists")
          /\ LetThrough(p) =>
                /\ frame[p].user = frame[p].decoded
                /\ TokenOf(Value(frame[p].user))
                      = splitSecond(Value(frame[p].authorization), BearerPrefix)

\* One request was let through with its user attached while another, whose
\* token verified too, was answered 401 for want of a profile.
C26_Witness ==
    \E p, q \in Handled :
        /\ LetThrough(p) /\ frame[p].user # Absent
        /\ Answered401(q) /\ frame[q].decoded # Absent /\ frame[q].profile = Some("missing")

----------------------------------------------------------------------------
(* Properties of FirebaseAuthProvider *)

FetchesSettled == \A p \in Callers : pc[p] = "idle"

\* C27: once every profile fetch has settled, userProfile is null or the
\* profile of the user signed in, and so null when nobody is signed in.
C27_ProfileOfSignedInUser ==
    FetchesSettled => hooks.userProfile \in {Absent, hooks.user}

----------------------------------------------------------------------------
(* Properties of the rating dialog *)

Sent == last.op = "POST /api/forms/:id/complete"

\* C28: the request handleSkip sends carries no rating, whatever star was
\* selected; a request handleSubmit sends carries a star 1..MaxRating, so
\* that handleSubmit sends none while rating is 0.
C28_SkipSendsNoRating ==
    /\ (Sent /\ last.handler = "handleSkip") => last.body.rating = Absent
    /\ (Sent /\ last.handler = "handleSubmit") =>
            /\ last.body.rating # Absent
            /\ Value(last.body.rating) \in Stars

----------------------------------------------------------------------------
(* Properties of a form's owner *)

\* C29: a form posted gets the session's user as createdBy, whatever the
\* body carries, and no PUT /api/forms/:id changes the createdBy, the id or
\* the createdAt of a form.
C29_CreatedByNeverChanges ==
    [][/\ (last'.op = "POST /api/forms" /\ last'.status = 201) =>
            /\ currentFormId \in DOMAIN forms'
            /\ forms'[currentFormId].createdBy = Value(last'.user)
       /\ last'.op = "PUT /api/forms/:id" =>
            \A id \in DOMAIN forms :
                /\ id \in DOMAIN forms'
                /\ forms'[id].createdBy = forms[id].createdBy
                /\ forms'[id].id = forms[id].id
                /\ forms'[id].createdAt = forms[id].createdAt]_vars

----------------------------------------------------------------------------
(* Properties of deleteForm *)

Deleted == DOMAIN forms \ DOMAIN forms'
Orphans == {i \in DOMAIN completions : completions[i].formId \notin DOMAIN forms}

\* C30: a step that deletes a form removes that one form and leaves every
\* Completion as it is, so that totalFilled, last7Days, last30Days and the
\* histogram of every user stay the same and formsPosted and avgRating change
\* for the form's owner only; and the id of a new form is above every id
\* given before, so that a deleted form's id never comes back.
C30_DeleteLeavesCompletions ==
    [][/\ currentFormId' >= currentFormId
       /\ \A f \in DOMAIN forms : f < currentFormId /\ forms[f].id = f
       /\ \A f \in DOMAIN forms' \ DOMAIN forms : f >= currentFormId /\ forms'[f].id = f
       /\ \A d \in Deleted :
            /\ Deleted = {d}
            /\ completions' = completions
            /\ \A f \in DOMAIN forms' : f \in DOMAIN forms /\ forms'[f] = forms[f]
            /\ \A u \in Users :
                LET before == getUserStats(u)
                    after == getUserStats(u)'
                IN /\ after.totalFilled = before.totalFilled
                   /\ after.last7Days = before.last7Days
                   /\ after.last30Days = before.last30Days
                   /\ \A days \in 0..MaxDays :
                         getActivityData(u, days)' = getActivityData(u, days)
                   /\ IF u = forms[d].createdBy
                      THEN after.formsPosted = before.formsPosted - 1
                      ELSE /\ after.formsPosted = before.formsPosted
                           /\ after.avgRating = before.avgRating]_vars

\* A form that was completed with a rating is gone, its Completion is still
\* in the store, and a form posted later by another user has a higher id.
C30_Witness ==
    \E i \in Orphans : \E f \in DOMAIN forms :
        /\ completions[i].formId < f
        /\ completions[i].rating # Absent
        /\ completions[i].userId = forms[f].createdBy
        /\ completions[i].completedAt < forms[f].createdAt

====
